---------------------------- MODULE Spec2Model ----------------------------
(***************************************************************************)
(* Model of the bikebridge cycling-power emulator (src/bike_emulator.py):  *)
(* the lock-guarded BikeState shared between the Flask request handlers    *)
(* and the asyncio simulation loop, the control endpoints, and the         *)
(* CyclingPowerMeasurementChrc.update_simulation loop that encodes and     *)
(* publishes the measurement.                                              *)
(*                                                                         *)
(* Numbers that Python holds as float are kept in fixed point: one unit is *)
(* 1/CalScale, so that 1/18, 0.02, 0.001 and 1.0 are all exact.  For every *)
(* calibration value the model stores, int(c * t * f) in IEEE doubles      *)
(* equals the exact quotient for all 0 <= c <= 200 and 1 <= t <= 100.      *)
(***************************************************************************)
EXTENDS Integers, Sequences, FiniteSets, TLC

\* ------------------------------------------------------------------ bounds
\* Ticks of the simulation loop explored: by the specifications of the
\* control plane, and by the specification of the notifying loop.
MaxTicks == 1
MaxNotifyTicks == 2

\* -------------------------------------------------------- program constants
\* One fixed-point unit is 1/CalScale: the least scale in which the default
\* factor 1/18 and the lower limit 0.001 are whole.
CalScale == 18 * 1000
CadenceMin == 0
CadenceMax == 200
TorqueMin == 1
TorqueMax == 100
CalMin == CalScale \div 1000
CalMax == CalScale
DefaultCadence == 60
DefaultTorque == 30
DefaultCal == CalScale \div 18
CrankFlag == 32
U16 == 65536
I16Min == -32768
I16Max == 32767

Threads == {"h1", "h2"}
Sched == "sched"
Free == "free"

\* ----------------------------------------------------- request body values
\* A JSON value as Python sees it after request.get_json: a finite number
\* (int or float, v in units of 1/CalScale), +/-Infinity, NaN, a
\* non-numeric string, or null.
Num(n) == [k |-> "num", v |-> n]
Inf(s) == [k |-> "inf", v |-> s]
NaN == [k |-> "nan", v |-> 0]
Str == [k |-> "str", v |-> 0]
Null == [k |-> "null", v |-> 0]
NoArg == [k |-> "none", v |-> 0]

Specials == {Inf(1), Inf(-1), NaN, Str, Null}

\* Every kind of value for each endpoint: below range, above range, in
\* range (60 and 60.7 rpm, 30 and 30.7 %, 1/18), and the non-numbers.
Inputs(ep) ==
  Specials \cup {Num(-5 * CalScale), Num(250 * CalScale)} \cup
  (CASE ep = "cadence" -> {Num(60 * CalScale), Num(60 * CalScale + 12600)}
     [] ep = "torque" -> {Num(30 * CalScale), Num(30 * CalScale + 12600)}
     [] OTHER -> {Num(1000)})

\* int(value): truncation toward zero for finite numbers; OverflowError for
\* an infinity, ValueError for NaN and for a non-numeric string, TypeError
\* for None.
Trunc(n) == IF n >= 0 THEN n \div CalScale ELSE -((-n) \div CalScale)

IntConv(x) ==
  CASE x.k = "num" -> [exc |-> "none", v |-> Trunc(x.v)]
    [] x.k = "inf" -> [exc |-> "OverflowError", v |-> 0]
    [] x.k = "nan" -> [exc |-> "ValueError", v |-> 0]
    [] x.k = "str" -> [exc |-> "ValueError", v |-> 0]
    [] OTHER -> [exc |-> "TypeError", v |-> 0]

\* float(value): every number (finite or not) converts to itself.
FloatConv(x) ==
  CASE x.k \in {"num", "inf", "nan"} -> [exc |-> "none", f |-> x]
    [] x.k = "str" -> [exc |-> "ValueError", f |-> NaN]
    [] OTHER -> [exc |-> "TypeError", f |-> NaN]

\* a < b on floats; every comparison with NaN is false.
FloatLess(a, b) ==
  CASE a.k = "nan" \/ b.k = "nan" -> FALSE
    [] a.k = "inf" /\ b.k = "inf" -> a.v < b.v
    [] a.k = "inf" -> a.v < 0
    [] b.k = "inf" -> b.v > 0
    [] OTHER -> a.v < b.v

\* Python's two-argument min and max: the first argument unless the second
\* compares strictly smaller (larger).
PyMin(a, b) == IF FloatLess(b, a) THEN b ELSE a
PyMax(a, b) == IF FloatLess(a, b) THEN b ELSE a

IntMin(a, b) == IF b < a THEN b ELSE a
IntMax(a, b) == IF b > a THEN b ELSE a

\* ClampCadence without the upper limit.
ClampCadenceNoCap(n) == IntMax(CadenceMin, n)

ClampCadence(n) == IntMax(CadenceMin, IntMin(CadenceMax, n))
ClampTorqueNoCap(n) == IntMax(TorqueMin, n)
ClampTorque(n) == IntMax(TorqueMin, IntMin(TorqueMax, n))
ClampCal(f) == PyMax(Num(CalMin), PyMin(Num(CalMax), f)).v

\* The exceptions the setters catch and swallow.
Caught == {"ValueError", "TypeError"}


\* ------------------------------------------------------------------- state
VARIABLES
  cadence, torque, calibration_factor, power,    \* BikeState fields
  lock,                                          \* BikeState._lock owner
  chrc_power, value, cum_crank_revs,             \* CyclingPowerMeasurementChrc
  last_crank_event_time, notifying,
  spc, c, t, tick_cadence,                       \* update_simulation position, locals
  ticks, clock,                                  \* ticks run, wall clock (1/1024 s)
  emit_calls,                                    \* emit_properties_changed calls of the tick
  snap,                                          \* BikeState inputs when calculate_power unlocks
  hpc, hep, harg, hloc, hresp,                   \* Flask handler threads
  degraded                                       \* registrations main() saw rejected

bikeVars == <<cadence, torque, calibration_factor, power>>
chrcVars == <<chrc_power, value, cum_crank_revs, last_crank_event_time>>
schedVars == <<spc, c, t, tick_cadence, ticks, clock, emit_calls, snap>>
handlerVars == <<hpc, hep, harg, hloc, hresp>>
vars ==
  <<bikeVars, lock, chrcVars, notifying, schedVars, handlerVars, degraded>>

NoResp == [status |-> 0, body |-> <<>>]
Resp(st, b) == [status |-> st, body |-> b]

\* with self._lock: the lock can be taken only when nobody holds it.
LockAvailable == lock = Free

\* ------------------------------------------------------- BikeState setters
\* Each returns the value the field holds when the setter is left and the
\* exception, if any, that leaves the setter uncaught.
SetCadence(old, x) ==
  LET r == IntConv(x)
  IN  IF r.exc = "none" THEN [val |-> ClampCadence(r.v), raised |-> "none"]
      ELSE IF r.exc \in Caught THEN [val |-> old, raised |-> "none"]
      ELSE [val |-> old, raised |-> r.exc]

\* SetTorque falling back to the lower limit when the value is rejected.
SetTorqueResetOnError(old, x) ==
  LET r == IntConv(x)
  IN  IF r.exc = "none" THEN [val |-> ClampTorque(r.v), raised |-> "none"]
      ELSE IF r.exc \in Caught THEN [val |-> TorqueMin, raised |-> "none"]
      ELSE [val |-> old, raised |-> r.exc]

SetTorque(old, x) ==
  LET r == IntConv(x)
  IN  IF r.exc = "none" THEN [val |-> ClampTorque(r.v), raised |-> "none"]
      ELSE IF r.exc \in Caught THEN [val |-> old, raised |-> "none"]
      ELSE [val |-> old, raised |-> r.exc]

SetCalibration(old, x) ==
  LET r == FloatConv(x)
  IN  IF r.exc = "none" THEN [val |-> ClampCal(r.f), raised |-> "none"]
      ELSE IF r.exc \in Caught THEN [val |-> old, raised |-> "none"]
      ELSE [val |-> old, raised |-> r.exc]

\* calculate_power: int(c * t * f)
PowerOf(cc, tt, ff) ==
  LET prod == cc * tt * ff
  IN  IF prod >= 0 THEN prod \div CalScale ELSE -((-prod) \div CalScale)

\* ------------------------------------------------------- control endpoints
Endpoints == {"cadence", "torque", "calibration"}

\* POST /api/<ep> with a JSON object: with a 'value' key the setter runs,
\* without one (or with an empty object) only the getter runs.
PostRequest(h, ep, hasValue) ==
  /\ hpc[h] = "idle"
  /\ hep' = [hep EXCEPT ![h] = ep]
  /\ hpc' = [hpc EXCEPT ![h] = IF hasValue THEN "set_acq" ELSE "get"]
  /\ UNCHANGED <<degraded, bikeVars, lock, chrcVars, notifying, schedVars, harg, hloc, hresp>>

\* The setter enters "with self._lock" holding the request's value.
SetterAcquire(h, x) ==
  /\ hpc[h] = "set_acq"
  /\ LockAvailable
  /\ lock' = h
  /\ harg' = [harg EXCEPT ![h] = x]
  /\ hpc' = [hpc EXCEPT ![h] = "set_body"]
  /\ UNCHANGED <<degraded, bikeVars, chrcVars, notifying, schedVars, hep, hloc, hresp>>

\* The setter's try block, then the release of the lock on every exit; an
\* uncaught exception reaches the handler's "except Exception".
SetterBodyKeepsLockOnError(h) ==
  /\ hpc[h] = "set_body"
  /\ LET r == CASE hep[h] = "cadence" -> SetCadence(cadence, harg[h])
                [] hep[h] = "torque" -> SetTorque(torque, harg[h])
                [] OTHER -> SetCalibration(calibration_factor, harg[h])
     IN  /\ cadence' = IF hep[h] = "cadence" THEN r.val ELSE cadence
         /\ torque' = IF hep[h] = "torque" THEN r.val ELSE torque
         /\ calibration_factor' =
              IF hep[h] = "calibration" THEN r.val ELSE calibration_factor
         /\ IF r.raised = "none"
              THEN /\ hpc' = [hpc EXCEPT ![h] = "get"]
                   /\ hresp' = hresp
                   /\ lock' = Free
              ELSE /\ hpc' = [hpc EXCEPT ![h] = "done"]
                   /\ hresp' = [hresp EXCEPT ![h] = Resp(500, <<>>)]
                   /\ lock' = lock
  /\ UNCHANGED <<degraded, power, chrcVars, notifying, schedVars, hep, harg, hloc>>

SetterBodyClearsPower(h) ==
  /\ hpc[h] = "set_body"
  /\ LET r == CASE hep[h] = "cadence" -> SetCadence(cadence, harg[h])
                [] hep[h] = "torque" -> SetTorque(torque, harg[h])
                [] OTHER -> SetCalibration(calibration_factor, harg[h])
     IN  /\ cadence' = IF hep[h] = "cadence" THEN r.val ELSE cadence
         /\ torque' = IF hep[h] = "torque" THEN r.val ELSE torque
         /\ calibration_factor' =
              IF hep[h] = "calibration" THEN r.val ELSE calibration_factor
         /\ IF r.raised = "none"
              THEN /\ hpc' = [hpc EXCEPT ![h] = "get"]
                   /\ hresp' = hresp
              ELSE /\ hpc' = [hpc EXCEPT ![h] = "done"]
                   /\ hresp' = [hresp EXCEPT ![h] = Resp(500, <<>>)]
  /\ power' = 0
  /\ lock' = Free
  /\ UNCHANGED <<degraded, chrcVars, notifying, schedVars, hep, harg, hloc>>

SetterBody(h) ==
  /\ hpc[h] = "set_body"
  /\ LET r == CASE hep[h] = "cadence" -> SetCadence(cadence, harg[h])
                [] hep[h] = "torque" -> SetTorque(torque, harg[h])
                [] OTHER -> SetCalibration(calibration_factor, harg[h])
     IN  /\ cadence' = IF hep[h] = "cadence" THEN r.val ELSE cadence
         /\ torque' = IF hep[h] = "torque" THEN r.val ELSE torque
         /\ calibration_factor' =
              IF hep[h] = "calibration" THEN r.val ELSE calibration_factor
         /\ IF r.raised = "none"
              THEN /\ hpc' = [hpc EXCEPT ![h] = "get"]
                   /\ hresp' = hresp
              ELSE /\ hpc' = [hpc EXCEPT ![h] = "done"]
                   /\ hresp' = [hresp EXCEPT ![h] = Resp(500, <<>>)]
  /\ lock' = Free
  /\ UNCHANGED <<degraded, power, chrcVars, notifying, schedVars, hep, harg, hloc>>

\* jsonify({ep: bike_state.<ep>}): the locked property getter.
Getter(h) ==
  /\ hpc[h] = "get"
  /\ LockAvailable
  /\ LET cur == CASE hep[h] = "cadence" -> cadence
                  [] hep[h] = "torque" -> torque
                  [] OTHER -> calibration_factor
     IN  hresp' = [hresp EXCEPT ![h] = Resp(200, <<cur>>)]
  /\ hpc' = [hpc EXCEPT ![h] = "done"]
  /\ UNCHANGED <<degraded, bikeVars, lock, chrcVars, notifying, schedVars, hep, harg, hloc>>

\* GET /api/state -> get_all: the four reads of the dict literal, in order,
\* inside one "with self._lock".
\* GetAllCadence reading through the locked property: the lock is not kept.
GetAllCadenceUnlocked(h) ==
  /\ hpc[h] = "idle"
  /\ LockAvailable
  /\ hep' = [hep EXCEPT ![h] = "state"]
  /\ hloc' = [hloc EXCEPT ![h] = <<cadence>>]
  /\ hpc' = [hpc EXCEPT ![h] = "ga_torque"]
  /\ UNCHANGED <<degraded, bikeVars, lock, chrcVars, notifying, schedVars, harg, hresp>>

GetAllCadence(h) ==
  /\ hpc[h] = "idle"
  /\ LockAvailable
  /\ lock' = h
  /\ hep' = [hep EXCEPT ![h] = "state"]
  /\ hloc' = [hloc EXCEPT ![h] = <<cadence>>]
  /\ hpc' = [hpc EXCEPT ![h] = "ga_torque"]
  /\ UNCHANGED <<degraded, bikeVars, chrcVars, notifying, schedVars, harg, hresp>>

GetAllTorque(h) ==
  /\ hpc[h] = "ga_torque"
  /\ hloc' = [hloc EXCEPT ![h] = Append(hloc[h], torque)]
  /\ hpc' = [hpc EXCEPT ![h] = "ga_cal"]
  /\ UNCHANGED <<degraded, bikeVars, lock, chrcVars, notifying, schedVars, hep, harg, hresp>>

GetAllCalibration(h) ==
  /\ hpc[h] = "ga_cal"
  /\ hloc' = [hloc EXCEPT ![h] = Append(hloc[h], calibration_factor)]
  /\ hpc' = [hpc EXCEPT ![h] = "ga_power"]
  /\ UNCHANGED <<degraded, bikeVars, lock, chrcVars, notifying, schedVars, hep, harg, hresp>>

GetAllPower(h) ==
  /\ hpc[h] = "ga_power"
  /\ hresp' = [hresp EXCEPT ![h] = Resp(200, Append(hloc[h], power))]
  /\ hloc' = [hloc EXCEPT ![h] = <<>>]
  /\ lock' = Free
  /\ hpc' = [hpc EXCEPT ![h] = "done"]
  /\ UNCHANGED <<degraded, bikeVars, chrcVars, notifying, schedVars, hep, harg>>

\* The response has been sent; the thread serves the next request.
Return(h) ==
  /\ hpc[h] = "done"
  /\ hpc' = [hpc EXCEPT ![h] = "idle"]
  /\ hresp' = [hresp EXCEPT ![h] = NoResp]
  /\ hep' = [hep EXCEPT ![h] = "none"]
  /\ harg' = [harg EXCEPT ![h] = NoArg]
  /\ UNCHANGED <<degraded, bikeVars, lock, chrcVars, notifying, schedVars, hloc>>

\* ------------------------------------------------- measurement encoding
\* struct.pack('<HhHH', ...): little-endian 16-bit fields, the second one
\* two's complement; struct.error when a field is out of range.
\* U16LE with the bytes in network order.
U16BE(n) == <<n \div 256, n % 256>>

U16LE(n) == <<n % 256, n \div 256>>
I16LE(n) == U16LE((n + U16) % U16)

PackFits(fl, pw, revs, et) ==
  /\ fl \in 0..(U16 - 1)
  /\ pw \in I16Min..I16Max
  /\ revs \in 0..(U16 - 1)
  /\ et \in 0..(U16 - 1)

Pack(fl, pw, revs, et) == U16LE(fl) \o I16LE(pw) \o U16LE(revs) \o U16LE(et)

\* struct.unpack('<HhHH', bytes) of a payload
U16At(b, i) == b[i] + 256 * b[i + 1]
I16At(b, i) == IF U16At(b, i) >= 32768 THEN U16At(b, i) - U16 ELSE U16At(b, i)
Unpack(b) ==
  [flags |-> U16At(b, 1), power |-> I16At(b, 3),
   revs |-> U16At(b, 5), time |-> U16At(b, 7)]

\* flags = (1 << 5)
Flags == CrankFlag

\* int(revs_per_second) with revs_per_second = cadence / 60.0
\* RevsIncrement rounding to the nearest revolution.
RevsIncrementCeil(cad) == (cad + 59) \div 60
RevsIncrementRounded(cad) == (cad + 30) \div 60

RevsIncrement(cad) == cad \div 60

\* int(time.time() * 1024) % 65536
TimeUnitSeconds(clk) == (clk \div 1024) % U16
TimeUnit(clk) == clk % U16

\* ------------------------------------------------------ update_simulation
\* Readings of int(time.time() * 1024), the wall clock in 1/1024 s, taken
\* modulo a multiple of 65536 that keeps them small.
ClockSamples == {1000, 66560}
OneClockSample == {66560}

\* self.power = bike_state.calculate_power(): the lock is taken and the
\* three inputs are read one after the other while it is held.
\* CalcPowerReadC reading through the locked property: the lock is not kept.
CalcPowerReadCUnlocked(limit) ==
  /\ spc = "sleep"
  /\ ticks < limit
  /\ LockAvailable
  /\ c' = cadence
  /\ ticks' = ticks + 1
  /\ emit_calls' = <<>>
  /\ spc' = "cp_t"
  /\ UNCHANGED <<degraded, bikeVars, lock, chrcVars, notifying, t, tick_cadence, clock,
                 snap, handlerVars>>

CalcPowerReadC(limit) ==
  /\ spc = "sleep"
  /\ ticks < limit
  /\ LockAvailable
  /\ lock' = Sched
  /\ c' = cadence
  /\ ticks' = ticks + 1
  /\ emit_calls' = <<>>
  /\ spc' = "cp_t"
  /\ UNCHANGED <<degraded, bikeVars, chrcVars, notifying, t, tick_cadence, clock, snap,
                 handlerVars>>

CalcPowerReadT ==
  /\ spc = "cp_t"
  /\ t' = torque
  /\ spc' = "cp_f"
  /\ UNCHANGED <<degraded, bikeVars, lock, chrcVars, notifying, c, tick_cadence, ticks,
                 clock, emit_calls, snap, handlerVars>>

CalcPowerReturn ==
  /\ spc = "cp_f"
  /\ chrc_power' = PowerOf(c, t, calibration_factor)
  /\ snap' = <<cadence, torque, calibration_factor>>
  /\ lock' = Free
  /\ c' = 0
  /\ t' = 0
  /\ spc' = "store"
  /\ UNCHANGED <<degraded, bikeVars, value, cum_crank_revs, last_crank_event_time,
                 notifying, tick_cadence, ticks, clock, emit_calls,
                 handlerVars>>

\* bike_state.power = self.power
StorePower ==
  /\ spc = "store"
  /\ LockAvailable
  /\ power' = chrc_power
  /\ spc' = "cadence"
  /\ UNCHANGED <<degraded, cadence, torque, calibration_factor, lock, chrcVars,
                 notifying, c, t, tick_cadence, ticks, clock, emit_calls, snap,
                 handlerVars>>

\* cadence = bike_state.cadence
ReadCadence ==
  /\ spc = "cadence"
  /\ LockAvailable
  /\ tick_cadence' = cadence
  /\ spc' = "encode"
  /\ UNCHANGED <<degraded, bikeVars, lock, chrcVars, notifying, c, t, ticks, clock,
                 emit_calls, snap, handlerVars>>

\* The counters advance, the payload is packed and stored in self._value;
\* a struct.error leaves the loop.  w is the wall clock the tick reads.
Encode(w) ==
  /\ spc = "encode"
  /\ LET revs == cum_crank_revs + RevsIncrement(tick_cadence)
         et == TimeUnit(w)
     IN  /\ clock' = w
         /\ cum_crank_revs' = revs
         /\ last_crank_event_time' = et
         /\ IF PackFits(Flags, chrc_power, revs % U16, et)
              THEN /\ value' = Pack(Flags, chrc_power, revs % U16, et)
                   /\ spc' = "print_torque"
              ELSE /\ value' = value
                   /\ spc' = "crashed"
  /\ tick_cadence' = 0
  /\ snap' = <<>>
  /\ UNCHANGED <<degraded, bikeVars, lock, chrc_power, notifying, c, t, ticks,
                 emit_calls, handlerVars>>

\* print(... bike_state.torque ... bike_state.calibration_factor ...): two
\* locked reads whose results are only printed.
PrintTorque ==
  /\ spc = "print_torque"
  /\ LockAvailable
  /\ spc' = "print_cal"
  /\ UNCHANGED <<degraded, bikeVars, lock, chrcVars, notifying, c, t, tick_cadence,
                 ticks, clock, emit_calls, snap, handlerVars>>

PrintCalibration ==
  /\ spc = "print_cal"
  /\ LockAvailable
  /\ spc' = "publish"
  /\ UNCHANGED <<degraded, bikeVars, lock, chrcVars, notifying, c, t, tick_cadence,
                 ticks, clock, emit_calls, snap, handlerVars>>

\* if self.notifying: self.emit_properties_changed({'Value': power_data}),
\* then await asyncio.sleep(1).  The call is made on the bus; when it
\* raises, nothing in the loop catches the exception.
\* Publish without the test of self.notifying.
PublishAlways(emitOk) ==
  /\ spc = "publish"
  /\ emit_calls' = Append(emit_calls, value)
  /\ spc' = IF emitOk THEN "sleep" ELSE "crashed"
  /\ UNCHANGED <<degraded, bikeVars, lock, chrcVars, notifying, c, t, tick_cadence,
                 ticks, clock, snap, handlerVars>>

Publish(emitOk) ==
  /\ spc = "publish"
  /\ IF notifying
       THEN /\ emit_calls' = Append(emit_calls, value)
            /\ spc' = IF emitOk THEN "sleep" ELSE "crashed"
       ELSE /\ emit_calls' = emit_calls
            /\ emitOk
            /\ spc' = "sleep"
  /\ UNCHANGED <<degraded, bikeVars, lock, chrcVars, notifying, c, t, tick_cadence,
                 ticks, clock, snap, handlerVars>>

\* StartNotify / StopNotify are served by the event loop, which is free only
\* while update_simulation awaits its sleep.
StartNotify ==
  /\ spc = "sleep"
  /\ notifying' = TRUE
  /\ UNCHANGED <<degraded, bikeVars, lock, chrcVars, schedVars, handlerVars>>

StopNotify ==
  /\ spc = "sleep"
  /\ notifying' = FALSE
  /\ UNCHANGED <<degraded, bikeVars, lock, chrcVars, schedVars, handlerVars>>

\* -------------------------------------------------------- GATT registry
\* The objects main() builds: service0 with the measurement characteristic,
\* service1 (device information) with two static characteristics.
ServiceIface == "org.bluez.GattService1"
CharacteristicIface == "org.bluez.GattCharacteristic1"

Services ==
  << [uuid |-> "00001818", primary |-> TRUE, path |-> "service0",
      characteristics |-> {"service0/char0"}],
     [uuid |-> "0000180a", primary |-> TRUE, path |-> "service1",
      characteristics |-> {"service1/char0", "service1/char1"}] >>

Characteristics ==
  [p \in {"service0/char0", "service1/char0", "service1/char1"} |->
     CASE p = "service0/char0" ->
            [uuid |-> "00002a63", flags |-> <<"notify">>, service |-> "service0"]
       [] p = "service1/char0" ->
            [uuid |-> "00002a29", flags |-> <<"read">>, service |-> "service1"]
       [] p = "service1/char1" ->
            [uuid |-> "00002a24", flags |-> <<"read">>, service |-> "service1"]]

\* self._value of a characteristic: the payload for the measurement
\* characteristic, a fixed byte string for the static ones.
StoredValue(p) ==
  CASE p = "service0/char0" -> value
    [] p = "service1/char0" -> <<"Google DeepMind">>
    [] p = "service1/char1" -> <<"Gemini-Bike-01">>

ServiceProperties(s) ==
  ServiceIface :> [UUID |-> s.uuid, Primary |-> s.primary]

\* CyclingPowerMeasurementChrc overrides get_properties_dict only to return
\* the base class's dictionary.
CharacteristicProperties(p) ==
  CharacteristicIface :>
    [UUID |-> Characteristics[p].uuid,
     Service |-> Characteristics[p].service,
     Flags |-> Characteristics[p].flags]

GetManagedObjects ==
  LET paths == {Services[i].path : i \in DOMAIN Services}
               \cup UNION {Services[i].characteristics : i \in DOMAIN Services}
      owner(p) == CHOOSE i \in DOMAIN Services : Services[i].path = p
  IN [p \in paths |->
        IF p \in DOMAIN Characteristics
          THEN CharacteristicProperties(p)
          ELSE ServiceProperties(Services[owner(p)])]

\* ------------------------------------------------------------------ main
\* bus.get_proxy_object(... adapter_path ...): when it raises, main prints
\* the error and returns.  (bus.connect and the adapter's call_set are taken
\* to succeed.)
GetAdapter(ok) ==
  /\ spc = "adapter"
  /\ spc' = IF ok THEN "agent" ELSE "exited"
  /\ UNCHANGED <<degraded, bikeVars, lock, chrcVars, notifying, c, t,
                 tick_cadence, ticks, clock, emit_calls, snap, handlerVars>>

\* A registration that main wraps in try/except: a rejection is printed and
\* main goes on to the next step.
Register(at, feature, next, ok) ==
  /\ spc = at
  /\ spc' = next
  /\ degraded' = IF ok THEN degraded ELSE degraded \cup {feature}
  /\ UNCHANGED <<bikeVars, lock, chrcVars, notifying, c, t, tick_cadence,
                 ticks, clock, emit_calls, snap, handlerVars>>

RegisterAgent(ok) == Register("agent", "agent", "gatt", ok)
RegisterApplication(ok) == Register("gatt", "gatt", "advert", ok)
RegisterAdvertisement(ok) == Register("advert", "advertisement", "sleep", ok)

\* --------------------------------------------------------- initial states
\* BikeState.__init__ and CyclingPowerMeasurementChrc.__init__.
InitFresh ==
  /\ cadence = DefaultCadence
  /\ torque = DefaultTorque
  /\ calibration_factor = DefaultCal
  /\ power = 0
  /\ chrc_power = 0
  /\ value = <<>>
  /\ cum_crank_revs = 0
  /\ last_crank_event_time = 0
  /\ clock = 0

\* The emulator left alone for r ticks: the defaults give 100 W and one
\* revolution per tick.
RunIn == {10, 65535}

InitAfter(r) ==
  /\ cadence = DefaultCadence
  /\ torque = DefaultTorque
  /\ calibration_factor = DefaultCal
  /\ power = PowerOf(DefaultCadence, DefaultTorque, DefaultCal)
  /\ chrc_power = PowerOf(DefaultCadence, DefaultTorque, DefaultCal)
  /\ cum_crank_revs = r
  /\ clock = 1000
  /\ last_crank_event_time = TimeUnit(1000)
  /\ value = Pack(Flags, PowerOf(DefaultCadence, DefaultTorque, DefaultCal),
                  r % U16, TimeUnit(1000))

InitShared ==
  /\ lock = Free
  /\ notifying = FALSE
  /\ degraded = {}
  /\ c = 0
  /\ t = 0
  /\ tick_cadence = 0
  /\ snap = <<>>
  /\ ticks = 0
  /\ emit_calls = <<>>
  /\ hpc = [h \in Threads |-> "idle"]
  /\ hep = [h \in Threads |-> "none"]
  /\ harg = [h \in Threads |-> NoArg]
  /\ hloc = [h \in Threads |-> <<>>]
  /\ hresp = [h \in Threads |-> NoResp]

\* main() has reached "await chrc_cp.update_simulation()".
InitRest == InitShared /\ spc = "sleep"

\* The process right after start-up.
InitStart == InitFresh /\ InitRest

\* main() has started the Flask thread and connected to the bus.
InitBoot == InitFresh /\ InitShared /\ spc = "adapter"

Init == (InitFresh \/ \E r \in RunIn : InitAfter(r)) /\ InitRest

\* The values of the end-to-end scenario (cadence 90, torque 50, calibration
\* 0.02) and one non-number.
RaceInputs(ep) ==
  CASE ep = "cadence" -> {Num(90 * CalScale), Str}
    [] ep = "torque" -> {Num(50 * CalScale)}
    [] OTHER -> {Num(360)}

\* The scenario's values, and the top cadence: the revolution counter
\* advances by 1 (cadence 60 and 90) or by 3 (cadence 200) a tick.
TickInputs(ep) ==
  CASE ep = "cadence" -> {Num(90 * CalScale), Num(200 * CalScale)}
    [] ep = "torque" -> {Num(50 * CalScale)}
    [] OTHER -> {Num(360)}

\* A slow cadence next to the scenario's: the revolution counter advances
\* by 0 (cadence 30) or by 1 (cadence 60 and 90) a tick.
SlowInputs(ep) ==
  CASE ep = "cadence" -> {Num(30 * CalScale), Num(90 * CalScale)}
    [] ep = "torque" -> {Num(50 * CalScale)}
    [] OTHER -> {Num(360)}

\* The values BikeState starts with, and an infinite cadence, which int()
\* refuses with an OverflowError.
LockInputs(ep) ==
  CASE ep = "cadence" -> {Num(DefaultCadence * CalScale), Inf(1)}
    [] ep = "torque" -> {Num(DefaultTorque * CalScale)}
    [] OTHER -> {Num(DefaultCal)}

ModeInputs(mode, ep) ==
  CASE mode = "io" -> Inputs(ep)
    [] mode = "race" -> RaceInputs(ep)
    [] mode = "slow" -> SlowInputs(ep)
    [] mode = "lock" -> LockInputs(ep)
    [] OTHER -> TickInputs(ep)

Handler(h, mode) ==
  \/ \E ep \in Endpoints, hasValue \in BOOLEAN : PostRequest(h, ep, hasValue)
  \/ \E x \in ModeInputs(mode, hep[h]) : SetterAcquire(h, x)
  \/ SetterBody(h)
  \/ Getter(h)
  \/ GetAllCadence(h)
  \/ GetAllTorque(h)
  \/ GetAllCalibration(h)
  \/ GetAllPower(h)
  \/ Return(h)

Tick(limit, samples) ==
  \/ CalcPowerReadC(limit)
  \/ CalcPowerReadT
  \/ CalcPowerReturn
  \/ StorePower
  \/ ReadCadence
  \/ \E w \in samples : Encode(w)
  \/ PrintTorque
  \/ PrintCalibration
  \/ \E emitOk \in BOOLEAN : Publish(emitOk)

\* Two Flask threads racing each other and the simulation loop.
Next ==
  \/ \E h \in Threads : Handler(h, "race")
  \/ Tick(MaxTicks, OneClockSample)

Spec == InitStart /\ [][Next]_vars

\* One Flask thread sending every kind of value, and the simulation loop.
NextIO ==
  \/ Handler("h1", "io")
  \/ Tick(MaxTicks, OneClockSample)

SpecIO == InitStart /\ [][NextIO]_vars

\* The simulation loop with a subscribing client and one Flask thread, from
\* a fresh start or after a run-in.
NextTick ==
  \/ Handler("h1", "tick")
  \/ Tick(MaxNotifyTicks, ClockSamples)
  \/ StartNotify
  \/ StopNotify

SpecTick == Init /\ [][NextTick]_vars

\* The simulation loop and one Flask thread that also sets a cadence below
\* one revolution a second.
NextSlow ==
  \/ Handler("h1", "slow")
  \/ Tick(MaxNotifyTicks, OneClockSample)

SpecSlow == InitStart /\ [][NextSlow]_vars

\* The steps of a request that has been received: the thread serving it is
\* scheduled again and again, and gets the lock when it asks often enough.
Serve(h, mode) ==
  \/ \E x \in ModeInputs(mode, hep[h]) : SetterAcquire(h, x)
  \/ SetterBody(h)
  \/ Getter(h)
  \/ GetAllTorque(h)
  \/ GetAllCalibration(h)
  \/ GetAllPower(h)

\* Two Flask threads and the simulation loop, scheduled fairly.  Nothing
\* obliges a client to send a request.
NextFair ==
  \/ \E h \in Threads : Handler(h, "lock")
  \/ Tick(MaxTicks, OneClockSample)

Fairness ==
  /\ SF_vars(Tick(MaxTicks, OneClockSample))
  /\ \A h \in Threads : SF_vars(Serve(h, "lock"))

SpecFair == InitStart /\ [][NextFair]_vars /\ Fairness

\* One Flask thread, the simulation loop and a subscribing client, scheduled
\* fairly.  Nothing obliges a client to send a request or to subscribe, nor
\* a signal emission to succeed.
NextPublish ==
  \/ Handler("h1", "race")
  \/ Tick(MaxNotifyTicks, OneClockSample)
  \/ StartNotify
  \/ StopNotify

FairnessPublish ==
  /\ SF_vars(Tick(MaxNotifyTicks, OneClockSample))
  /\ SF_vars(Serve("h1", "race"))

SpecPublish == InitStart /\ [][NextPublish]_vars /\ FairnessPublish

\* main() from the adapter lookup on, with the Flask thread already serving.
NextStart ==
  \/ \E ok \in BOOLEAN : GetAdapter(ok)
  \/ \E ok \in BOOLEAN : RegisterAgent(ok)
  \/ \E ok \in BOOLEAN : RegisterApplication(ok)
  \/ \E ok \in BOOLEAN : RegisterAdvertisement(ok)
  \/ Handler("h1", "race")
  \/ Tick(MaxTicks, OneClockSample)

SpecStart == InitBoot /\ [][NextStart]_vars

\* ================================================================ claims
\* Handler h leaves the setter of endpoint ep in this step.
SetterLeaves(h, ep) ==
  /\ hpc[h] = "set_body"
  /\ hep[h] = ep
  /\ hpc'[h] # "set_body"

IsInteger(x) == x.k = "num" /\ x.v % CalScale = 0
IsNumeric(x) == x.k \in {"num", "inf"}
IsUnparsable(x) == x.k \in {"str", "null"}

\* v limited to [lo, hi], all three in units of 1/CalScale.
Limited(x, lo, hi) ==
  IF x.k = "inf" THEN (IF x.v > 0 THEN hi ELSE lo)
  ELSE IF x.v < lo THEN lo ELSE IF x.v > hi THEN hi ELSE x.v

\* C1: after setCadence(v) with an integer v the stored cadence is
\* min(200, max(0, v)), and in every reachable state 0 <= cadence <= 200.
C1_CadenceClamped ==
  /\ [][\A h \in Threads :
          SetterLeaves(h, "cadence") /\ IsInteger(harg[h]) =>
            cadence' * CalScale = Limited(harg[h], 0, 200 * CalScale)]_vars
  /\ [](cadence >= 0 /\ cadence <= 200)

\* setCadence(250) has just stored 200.
C1_Witness ==
  /\ hpc["h1"] = "get"
  /\ hep["h1"] = "cadence"
  /\ harg["h1"] = Num(250 * CalScale)
  /\ cadence = 200

\* C2: after setTorque(v) with a numeric v the stored torque is v limited to
\* [1, 100] (up to the fraction an integer field drops), after
\* setCalibration(v) the stored factor is v limited to [0.001, 1.0], and in
\* every reachable state both fields are within their limits.
C2_NumericClamped ==
  /\ [][\A h \in Threads :
          /\ SetterLeaves(h, "torque") /\ IsNumeric(harg[h]) =>
               LET want == Limited(harg[h], CalScale, 100 * CalScale)
               IN  /\ torque' * CalScale <= want
                   /\ want < (torque' + 1) * CalScale
          /\ SetterLeaves(h, "calibration") /\ IsNumeric(harg[h]) =>
               calibration_factor' = Limited(harg[h], 18, CalScale)]_vars
  /\ [](torque >= 1 /\ torque <= 100)
  /\ [](calibration_factor >= 18 /\ calibration_factor <= CalScale)

\* C8: a setter called with a value that is not a number leaves all four
\* BikeState fields as they were, raises nothing and releases the lock.
C8_UnparsableIsNoOp ==
  [][\A h \in Threads :
       /\ hpc[h] = "set_body"
       /\ hpc'[h] # "set_body"
       /\ IsUnparsable(harg[h])
       => /\ bikeVars' = bikeVars
          /\ hpc'[h] = "get"
          /\ hresp'[h] = NoResp
          /\ lock' = Free]_vars

\* setTorque("abc") has returned with the torque 100 set earlier still there.
C8_Witness ==
  /\ hpc["h1"] = "get"
  /\ hep["h1"] = "torque"
  /\ harg["h1"] = Str
  /\ torque = 100
  /\ lock = Free

\* C9: every response of a control endpoint has success status and carries
\* the value of its field.
C9_AlwaysSuccess ==
  \A h \in Threads :
    hpc[h] = "done" /\ hep[h] \in Endpoints =>
      /\ hresp[h].status = 200
      /\ Len(hresp[h].body) = 1

\* C3: a tick calls emit_properties_changed exactly once, with the value it
\* has just stored, if notifying is true when it publishes, and not at all
\* if it is false; outside the publish step, and while notifying is false,
\* no event is emitted.
C3_SubscriptionGating ==
  [][/\ spc = "publish" /\ spc' # "publish" =>
          /\ value' = value
          /\ emit_calls' = IF notifying THEN <<value>> ELSE <<>>
     /\ spc # "publish" => emit_calls' = emit_calls \/ emit_calls' = <<>>
     /\ ~notifying => Len(emit_calls') <= Len(emit_calls)]_vars

\* The second tick of a subscribed client has emitted its payload.
C3_Witness ==
  /\ spc = "sleep"
  /\ ticks = 2
  /\ notifying
  /\ Len(value) = 8
  /\ emit_calls = <<value>>

\* C4: the stored value is 8 bytes, little-endian flags, power, revolutions
\* and event time, with flags 0x0020, and unpacking it gives back the power,
\* the revolutions mod 65536 and the event time of the tick.
C4_PayloadLayout ==
  value # <<>> /\ spc \notin {"store", "cadence", "encode"} =>
    /\ Len(value) = 8
    /\ \A i \in 1..8 : value[i] \in 0..255
    /\ value[1] = 32 /\ value[2] = 0
    /\ value[3] + 256 * value[4] = (chrc_power + 65536) % 65536
    /\ value[5] + 256 * value[6] = cum_crank_revs % 65536
    /\ value[7] + 256 * value[8] = last_crank_event_time
    /\ Unpack(value) = [flags |-> 32, power |-> chrc_power,
                        revs |-> cum_crank_revs % 65536,
                        time |-> last_crank_event_time]

\* The scenario's payload: 20 00 5A 00 0B 00 E8 03.
C4_Witness ==
  /\ spc = "sleep"
  /\ value = <<32, 0, 90, 0, 11, 0, 232, 3>>

\* The revolutions field of a payload; 0 before the first tick.
RevsField(b) == IF b = <<>> THEN 0 ELSE b[5] + 256 * b[6]

\* C5: the revolutions field a tick encodes is the previous field plus
\* floor(cadence / 60), mod 65536; from 10 with cadence 90 it is 11.
C5_CounterAdvance ==
  [][spc = "encode" /\ spc' # "encode" =>
       /\ RevsField(value') =
            (RevsField(value) + (tick_cadence \div 60)) % 65536
       /\ RevsField(value) = 10 /\ tick_cadence = 90 => RevsField(value') = 11
       /\ RevsField(value) = 65535 /\ tick_cadence = 200 => RevsField(value') = 2
    ]_vars

\* The counter has gone from 65535 to 65538 and the field from 65535 to 2.
C5_Witness ==
  /\ spc = "sleep"
  /\ cum_crank_revs = 65538
  /\ RevsField(value) = 2

\* C6: the power a tick stores in BikeState is floor(c * t * f) of the three
\* inputs BikeState held when calculate_power released the lock; 100 for the
\* defaults and 90 for (90, 50, 0.02).
C6_PowerFromOneSnapshot ==
  spc \in {"cadence", "encode"} =>
    /\ Len(snap) = 3
    /\ power * CalScale <= snap[1] * snap[2] * snap[3]
    /\ snap[1] * snap[2] * snap[3] < (power + 1) * CalScale
    /\ snap = <<60, 30, 1000>> => power = 100
    /\ snap = <<90, 50, 360>> => power = 90

\* The tick has stored 90 W while a setter was waiting for the lock.
C6_Witness ==
  /\ spc = "cadence"
  /\ snap = <<90, 50, 360>>
  /\ power = 90
  /\ hpc["h2"] = "set_acq"

\* C7: the tuple get_all returns is the tuple BikeState holds at the instant
\* the last of its four reads is made.
C7_SnapshotConsistent ==
  [][\A h \in Threads :
       hpc[h] = "ga_power" /\ hpc'[h] = "done" =>
         /\ hresp'[h].status = 200
         /\ hresp'[h].body = <<cadence, torque, calibration_factor, power>>
         /\ bikeVars' = bikeVars]_vars

\* get_all has returned (90, 50, 0.02, 90) while a setter was waiting.
C7_Witness ==
  /\ hpc["h1"] = "done"
  /\ hep["h1"] = "state"
  /\ hresp["h1"].body = <<90, 50, 360, 90>>
  /\ hpc["h2"] = "set_acq"

\* C10: the simulation loop is never left through an exception.
C10_LoopSurvives == spc # "crashed"

\* C11: whichever start-up step fails, main still reaches the simulation
\* loop: it never returns before update_simulation is started.
C11_StartupReachesLoop == spc # "exited"

\* C12: the power handed to struct.pack always fits a signed 16-bit field,
\* so packing never raises and every stored payload is eight bytes.
C12_PowerFitsInt16 ==
  /\ chrc_power \in I16Min..I16Max
  /\ power \in I16Min..I16Max
  /\ spc = "encode" => PackFits(Flags, chrc_power, 0, 0)
  /\ spc # "crashed"
  /\ value # <<>> =>
       /\ Len(value) = 8
       /\ \A i \in 1..8 : value[i] \in 0..255
       /\ I16At(value, 3) \in I16Min..I16Max

\* The largest power the setters allow (200 rpm, 100 Nm, factor 1.0) has
\* been computed and encoded.
C12_Witness ==
  /\ spc = "sleep"
  /\ chrc_power = CadenceMax * TorqueMax
  /\ value # <<>>
  /\ I16At(value, 3) = CadenceMax * TorqueMax

\* C13: GetManagedObjects has an entry for every service and for every
\* characteristic, and a characteristic's entry carries its UUID, its flags
\* and the value the characteristic currently stores.
C13_SnapshotTree ==
  /\ \A i \in DOMAIN Services :
       /\ Services[i].path \in DOMAIN GetManagedObjects
       /\ \A p \in Services[i].characteristics :
            /\ p \in DOMAIN GetManagedObjects
            /\ LET props == GetManagedObjects[p][CharacteristicIface]
               IN /\ props.UUID = Characteristics[p].uuid
                  /\ props.Flags = Characteristics[p].flags
                  /\ "Value" \in DOMAIN props
                  /\ props.Value = StoredValue(p)

\* C14: in every tick the cadence that advances the crank count is the
\* cadence from which that tick's power was computed.
C14_OneCadencePerTick ==
  spc = "encode" =>
    /\ tick_cadence = snap[1]
    /\ chrc_power = PowerOf(tick_cadence, snap[2], snap[3])

\* C15 as stated: a tick at a positive cadence strictly increases the
\* revolution count.  (At a constant cadence every tick adds the same
\* amount, so the count eventually increases exactly when each tick
\* increases it.)
C15_RevsIncreaseAtPositiveCadence ==
  [][spc = "encode" /\ spc' # "encode" /\ tick_cadence > 0 =>
       cum_crank_revs' > cum_crank_revs]_vars

\* C15: the revolution count never decreases in a tick; it strictly
\* increases when the cadence is at least 60 and stays as it is when the
\* cadence is below 60.
C15_RevsMonotone ==
  [][spc = "encode" /\ spc' # "encode" =>
       /\ cum_crank_revs' >= cum_crank_revs
       /\ tick_cadence >= 60 => cum_crank_revs' > cum_crank_revs
       /\ tick_cadence < 60 => cum_crank_revs' = cum_crank_revs
    ]_vars

\* Two ticks at cadence 30 have left the count at 0.
C15_Witness ==
  /\ spc = "sleep"
  /\ ticks = MaxNotifyTicks
  /\ cadence = 30
  /\ value # <<>>
  /\ cum_crank_revs = 0

\* C16: a setter changes no BikeState field but its own; a step of the
\* simulation loop changes no BikeState field but power; and a step of a
\* Flask handler changes neither the characteristic's power, payload and
\* counters nor its notifying flag.
C16_Frame ==
  [][/\ \A h \in Threads :
          /\ SetterLeaves(h, "cadence") =>
               UNCHANGED <<torque, calibration_factor, power>>
          /\ SetterLeaves(h, "torque") =>
               UNCHANGED <<cadence, calibration_factor, power>>
          /\ SetterLeaves(h, "calibration") =>
               UNCHANGED <<cadence, torque, power>>
     /\ spc' # spc => UNCHANGED <<cadence, torque, calibration_factor>>
     /\ hpc' # hpc => UNCHANGED <<chrcVars, notifying>>
    ]_vars

\* After a tick stored power 100, set_cadence has stored 200 and left the
\* rest of BikeState and the payload as they were.
C16_Witness ==
  /\ hpc["h1"] = "get"
  /\ hep["h1"] = "cadence"
  /\ cadence = CadenceMax
  /\ torque = DefaultTorque
  /\ calibration_factor = DefaultCal
  /\ power = 100
  /\ value # <<>>
  /\ I16At(value, 3) = 100

\* C17: the crank event time is the wall clock in 1/1024 s modulo 65536 as
\* sampled by the last tick, whatever the cadence and the previous event
\* time were: it lies in 0..65535, and the payload carries it.  A clock of
\* 66560 gives 1024.
C17_EventTimeFromClock ==
  /\ last_crank_event_time = clock % 65536
  /\ last_crank_event_time \in 0..65535
  /\ value # <<>> => U16At(value, 7) = clock % 65536
  /\ clock = 66560 => last_crank_event_time = 1024

\* A second tick has sampled a clock beyond 16 bits after a first tick
\* sampled a smaller one.
C17_Witness ==
  /\ spc = "sleep"
  /\ ticks = MaxNotifyTicks
  /\ clock = 66560
  /\ last_crank_event_time = 1024
  /\ U16At(value, 7) = 1024
  /\ cum_crank_revs > 0

\* The values BikeState takes under RaceInputs.
C18_Triples == {60, 90} \X {30, 50} \X {DefaultCal, 360}

\* power and the payload show the power of the triple tr.
C18_Published(tr) ==
  /\ power = PowerOf(tr[1], tr[2], tr[3])
  /\ value # <<>>
  /\ I16At(value, 3) = PowerOf(tr[1], tr[2], tr[3])

\* C18: whenever BikeState holds some cadence, torque and calibration factor
\* and a tick is still to start, then either the three are changed again or
\* a tick stores their power in BikeState and in the payload.
C18_UpdatesPublished ==
  \A tr \in C18_Triples :
    (<<cadence, torque, calibration_factor>> = tr /\ ticks < MaxNotifyTicks)
      ~> (<<cadence, torque, calibration_factor>> # tr \/ C18_Published(tr))

\* Where a Flask thread, or the simulation loop, is inside a "with
\* self._lock" block.
C19_Holding == {"set_body", "ga_torque", "ga_cal", "ga_power"}
C19_SchedHolding == {"cp_t", "cp_f"}

\* C19: the lock is held exactly by the one thread that is inside a locked
\* block, so no thread asks for the lock while holding it and every way out
\* of a block, the raising setter's too, leaves the lock released; whoever
\* holds the lock can take a step; and under fair scheduling every request a
\* handler has started gets its response and every tick the loop has started
\* reaches its sleep, unless the emission fails.
C19_LockDiscipline ==
  /\ [](/\ \A h \in Threads : hpc[h] \in C19_Holding <=> lock = h
        /\ spc \in C19_SchedHolding <=> lock = Sched
        /\ \A h \in Threads :
             lock = h =>
               ENABLED (SetterBody(h) \/ GetAllTorque(h)
                          \/ GetAllCalibration(h) \/ GetAllPower(h))
        /\ lock = Sched => ENABLED (CalcPowerReadT \/ CalcPowerReturn))
  /\ \A h \in Threads : (hpc[h] \notin {"idle", "done"}) ~> (hpc[h] = "done")
  /\ (spc \notin {"sleep", "crashed"}) ~> (spc \in {"sleep", "crashed"})

\* set_cadence has raised OverflowError in one thread, which answered 500,
\* and the other thread is inside a locked block while the loop waits for
\* the lock.
C19_Witness ==
  /\ hpc["h1"] = "done"
  /\ hresp["h1"].status = 500
  /\ lock = "h2"
  /\ hpc["h2"] = "set_body"
  /\ spc = "store"

=============================================================================
